---- MODULE Spec2Model ----
(***************************************************************************)
(* Verification model of parts of Clrbrain/MagellanMapper:                 *)
(*   - detector.py: removal of duplicate and close blobs                   *)
(*   - lib_clrbrain.py: backup_file and insert_before_ext                  *)
(*   - transformer.py: chunked rescaling in transpose_img and              *)
(*     get_transposed_image_path                                           *)
(*   - profiles.py: update_process_settings                                *)
(* Each part has its own specification over a shared set of variables; the *)
(* variables of the parts a specification does not use stay at their idle  *)
(* values.                                                                 *)
(***************************************************************************)
EXTENDS Integers, Sequences, FiniteSets, TLC

VARIABLES
    \* detector.py
    blobs,          \* array argument: sequence of rows, each a sequence of numbers
    blobs_master,   \* master array argument of remove_close_blobs
    region,         \* n of the column slice slice(0, n)
    tol,            \* tolerance, one element per region column
    op,             \* which detector function has run: "init", "dup", "close", "within"
    ret,            \* returned array: [isNone |-> BOOLEAN, rows |-> sequence of rows]
    ret_master,     \* blobs_master as returned (shifted) by remove_close_blobs
    \* transformer.py, the rescaling step of transpose_img
    pc,             \* position of the main process
    image,          \* the image being rescaled
    shape,          \* sub_rois.shape: number of chunks along z, y, x
    rescale,        \* the rescale argument, "None" or a factor
    sub_roi_size,   \* target size of each chunk, "None" or a size
    sub_rois,       \* array of chunks of the main process, by coordinate
    worker_rois,    \* Downsampler.sub_rois as the forked workers hold it
    pool_results,   \* AsyncResult of every submitted task, in submission order
    taskq,          \* the pool's task queue: indices into pool_results
    workers,        \* worker process -> index of the task it runs, 0 if idle
    n_got,          \* number of results retrieved by result.get()
    finished,       \* indices of the finished tasks, in order of completion
    merged,         \* chunks handed to merge_split_stack2, <<>> before
    \* lib_clrbrain.py, backup_file
    fs,             \* the file system: path -> content, for the paths that exist
    n_writes,       \* number of files written so far; the next content
    pre,            \* the file system before the last call of backup_file
    last,           \* the last operation, with what backup_file did
    made,           \* path -> contents backed up by backup_file(path), in order
    assoc_moved,    \* paths that were backed up as an associated file
    \* transformer.py, get_transposed_image_path
    img_path,           \* the img_path argument, a sequence of tokens
    scale,              \* the scale argument, None or a number
    target_size,        \* the target_size argument, None or three numbers
    img_path_modified,  \* the returned path
    path_pc,            \* "call" before and "return" after the call
    \* profiles.py, update_process_settings
    settings,       \* the ProcessSettings dictionary: key -> value
    settings_type,  \* the settings_type argument, a sequence of tokens
    settings_pc,    \* "call" before and "return" after the call
    \* lib_clrbrain.py, scale_slice
    sl,             \* the sl argument: start, stop, step, each None or an int
    slice_scale,    \* the scale argument, in halves
    slice_size,     \* the size argument
    slice_ret,      \* what the call gave: a slice, an index array or an exception
    slice_pc        \* "call" before and "return" after the call

blobVars == <<blobs, blobs_master, region, tol, op, ret, ret_master>>

poolVars == <<pc, image, shape, rescale, sub_roi_size, sub_rois, worker_rois,
              pool_results, taskq, workers, n_got, finished, merged>>

fsVars == <<fs, n_writes, pre, last, made, assoc_moved>>

pathVars == <<img_path, scale, target_size, img_path_modified, path_pc>>

settingsVars == <<settings, settings_type, settings_pc>>

sliceVars == <<sl, slice_scale, slice_size, slice_ret, slice_pc>>

vars == <<blobVars, poolVars, fsVars, pathVars, settingsVars, sliceVars>>

\* The variables of the other parts, left alone by the actions of one part
notBlobs == <<poolVars, fsVars, pathVars, settingsVars, sliceVars>>
notPool == <<blobVars, fsVars, pathVars, settingsVars, sliceVars>>
notFs == <<blobVars, poolVars, pathVars, settingsVars, sliceVars>>
notPath == <<blobVars, poolVars, fsVars, settingsVars, sliceVars>>
notSettings == <<blobVars, poolVars, fsVars, pathVars, sliceVars>>
notSlice == <<blobVars, poolVars, fsVars, pathVars, settingsVars>>

----------------------------------------------------------------------------
(* Generic helpers *)

Min(a, b) == IF a <= b THEN a ELSE b

Abs(a) == IF a >= 0 THEN a ELSE -a

Range(s) == {s[i] : i \in 1..Len(s)}

\* All sequences over S of length 0..n
SeqsUpTo(S, n) == UNION {[1..k -> S] : k \in 0..n}

\* Rows of arr at the (1-based) positions listed in idx, in that order: arr[idx]
Take(arr, idx) == [j \in 1..Len(idx) |-> arr[idx[j]]]

\* Ascending sequence of the positions 1..n that are in the set S
Positions(n, S) == SelectSeq([i \in 1..n |-> i], LAMBDA i : i \in S)

----------------------------------------------------------------------------
(* detector.py *)

\* Bounds of the detector inputs
MaxBlobs == 3
MaxMaster == 2

ZVals == {1, 3}
YVals == {3, 5, 7}
XVals == {4}
RadiusVals == {2, 5}
ShiftVals == {0, 3}

\* Rows [z, row, column, radius] as in the module's own tests, and rows
\* [z, row, column, radius, confirmation, shifted z] whose column 5 (0-based)
\* falls in the slice 5:9 that remove_close_blobs shifts
Rows4 == {<<z, y, x, r>> : z \in ZVals, y \in YVals, x \in XVals, r \in RadiusVals}
Rows6 == {<<1, y, x, 2, -1, s>> : y \in YVals, x \in XVals, s \in ShiftVals}
\* The rows of Rows4 that differ in their coordinates only
CoordRows4 == {r \in Rows4 : r[4] = 2}

\* (region, tol) pairs: region is slice(0, n), tol has n elements
RegionTols == {<<3, <<1, 2, 2>>>>, <<3, <<0, 0, 0>>>>, <<2, <<0, 2>>>>}

NoneArr == [isNone |-> TRUE, rows |-> <<>>]
Arr(rows) == [isNone |-> FALSE, rows |-> rows]

\* blob[region] with region = slice(0, n)
Region(row, n) == SubSeq(row, 1, Min(n, Len(row)))

\* One (master, blob) element of (blobs_diffs <= tol).all(2)
IsCloseStrict(m, b, n, t) ==
    \A k \in 1..Min(n, Len(m)) : Abs(m[k] - b[k]) < t[k]

IsClose(m, b, n, t) ==
    \A k \in 1..Min(n, Len(m)) : Abs(m[k] - b[k]) <= t[k]

\* np.nonzero of the (master x blobs) closeness matrix: pairs
\* <<close_master[i], close[i]>> in row-major order
_find_close_blobs(bl, master, n, t) ==
    LET M == Len(master)
        N == Len(bl)
        pairs == [k \in 1..(M * N) |-> <<((k - 1) \div N) + 1, ((k - 1) % N) + 1>>]
    IN  SelectSeq(pairs, LAMBDA p : IsClose(master[p[1]], bl[p[2]], n, t))

\* np.around(x / 2) for an integer x: rounds half to even
AroundHalf(x) ==
    LET q == x \div 2
    IN  IF x % 2 = 0 THEN q ELSE IF q % 2 = 0 THEN q ELSE q + 1

\* Columns 5:9 (0-based) of a row are the 1-based columns 6..9
ShiftCols == 6..9

\* One master row after blobs_master[close_master, 5:9] = around((master + blob) / 2)
ShiftRow(m, b) ==
    [k \in 1..Len(m) |-> IF k \in ShiftCols THEN AroundHalf(m[k] + b[k]) ELSE m[k]]

\* The mutant keeps the close rows and deletes the others
remove_close_blobs_keep_close(bl, master, n, t) ==
    LET close == _find_close_blobs(bl, master, n, t)
        closeIdx == {close[i][2] : i \in 1..Len(close)}
    IN  [pruned |-> Take(bl, Positions(Len(bl), closeIdx)),
         master |-> master]

\* remove_close_blobs: pruned is np.delete(blobs, close, axis=0); every master
\* row with a close blob is shifted, the right-hand side being computed from
\* the unshifted master and the last assignment to a repeated index winning
remove_close_blobs(bl, master, n, t) ==
    LET close == _find_close_blobs(bl, master, n, t)
        closeIdx == {close[i][2] : i \in 1..Len(close)}
        hits(m) == SelectSeq(close, LAMBDA p : p[1] = m)
    IN  [pruned |-> Take(bl, Positions(Len(bl), (1..Len(bl)) \ closeIdx)),
         master |-> [m \in 1..Len(master) |->
                        IF hits(m) = <<>> THEN master[m]
                        ELSE ShiftRow(master[m], bl[hits(m)[Len(hits(m))][2]])]]

\* The mutant never concatenates blobs_to_add
RECURSIVE within_loop_no_concat(_, _, _, _, _)
within_loop_no_concat(bl, i, all, n, t) ==
    IF i > Len(bl) THEN all
    ELSE IF all.isNone THEN within_loop_no_concat(bl, i + 1, Arr(<<bl[i]>>), n, t)
    ELSE LET r == remove_close_blobs(<<bl[i]>>, all.rows, n, t)
         IN  within_loop_no_concat(bl, i + 1, Arr(r.master), n, t)

\* The loop of remove_close_blobs_within_array from row i on; all is blobs_all
RECURSIVE within_loop(_, _, _, _, _)
within_loop(bl, i, all, n, t) ==
    IF i > Len(bl) THEN all
    ELSE IF all.isNone THEN within_loop(bl, i + 1, Arr(<<bl[i]>>), n, t)
    ELSE LET r == remove_close_blobs(<<bl[i]>>, all.rows, n, t)
         IN  within_loop(bl, i + 1, Arr(r.master \o r.pruned), n, t)

\* remove_close_blobs_within_array; arr is NoneArr or Arr(rows)
remove_close_blobs_within_array(arr, n, t) ==
    IF arr.isNone THEN NoneArr
    ELSE within_loop(arr.rows, 1, NoneArr, n, t)

\* The 8 bytes, lowest address first, of the little-endian float64 holding
\* the integer v with |v| < 32: only the top 16 bits are non-zero
Float64Bytes(v) ==
    LET a == Abs(v)
        e == IF a >= 16 THEN 4 ELSE IF a >= 8 THEN 3 ELSE IF a >= 4 THEN 2
             ELSE IF a >= 2 THEN 1 ELSE 0
        sign == IF v < 0 THEN 32768 ELSE 0
        hi == IF a = 0 THEN sign
              ELSE sign + (1023 + e) * 16 + (a - 2^e) * 2^(4 - e)
    IN  <<0, 0, 0, 0, 0, 0, hi % 256, hi \div 256>>

\* The np.void view of one row of blobs[:, region]
RECURSIVE VoidKey(_)
VoidKey(reg) ==
    IF reg = <<>> THEN <<>> ELSE Float64Bytes(Head(reg)) \o VoidKey(Tail(reg))

\* memcmp order of two byte strings of equal length
RECURSIVE BytesLess(_, _)
BytesLess(a, b) ==
    IF a = <<>> THEN FALSE
    ELSE IF Head(a) # Head(b) THEN Head(a) < Head(b)
    ELSE BytesLess(Tail(a), Tail(b))

\* The mutant compares the first region column only
remove_duplicate_blobs_first_col(bl, n) ==
    LET key(i) == VoidKey(Region(bl[i], 1))
        first == Positions(Len(bl), {i \in 1..Len(bl) : \A j \in 1..(i - 1) : key(j) # key(i)})
        unique_indices == SortSeq(first, LAMBDA i, j : BytesLess(key(i), key(j)))
    IN  Take(bl, unique_indices)

\* remove_duplicate_blobs: np.unique(..., return_index=True) on the void view
\* gives, in the byte order of the keys, the first index of each key
remove_duplicate_blobs(bl, n) ==
    LET key(i) == VoidKey(Region(bl[i], n))
        first == Positions(Len(bl), {i \in 1..Len(bl) : \A j \in 1..(i - 1) : key(j) # key(i)})
        unique_indices == SortSeq(first, LAMBDA i, j : BytesLess(key(i), key(j)))
    IN  Take(bl, unique_indices)

\* Input arrays of one width
Arrays4 == SeqsUpTo(Rows4, MaxBlobs)
Arrays6 == SeqsUpTo(Rows6, MaxBlobs)

IdleBlobs ==
    /\ blobs = NoneArr
    /\ blobs_master = <<>>
    /\ region = 0
    /\ tol = <<>>
    /\ op = "idle"
    /\ ret = NoneArr
    /\ ret_master = <<>>

IdleFs ==
    /\ fs = <<>>
    /\ n_writes = 0
    /\ pre = <<>>
    /\ last = [op |-> "idle"]
    /\ made = <<>>
    /\ assoc_moved = {}

IdlePath ==
    /\ img_path = <<>>
    /\ scale = [none |-> TRUE]
    /\ target_size = [none |-> TRUE]
    /\ img_path_modified = <<>>
    /\ path_pc = "idle"

IdleSettings ==
    /\ settings = <<>>
    /\ settings_type = <<>>
    /\ settings_pc = "idle"

IdleSlice ==
    /\ sl = <<>>
    /\ slice_scale = 0
    /\ slice_size = 0
    /\ slice_ret = <<>>
    /\ slice_pc = "idle"

IdlePool ==
    /\ pc = "idle"
    /\ image = "none"
    /\ shape = <<0, 0, 0>>
    /\ rescale = "None"
    /\ sub_roi_size = "None"
    /\ sub_rois = <<>>
    /\ worker_rois = <<>>
    /\ pool_results = <<>>
    /\ taskq = <<>>
    /\ workers = <<>>
    /\ n_got = 0
    /\ finished = <<>>
    /\ merged = <<>>

\* Arguments of remove_close_blobs_within_array: None or an array
InitWithin ==
    /\ IdlePool
    /\ IdleFs
    /\ IdlePath
    /\ IdleSettings
    /\ IdleSlice
    /\ blobs \in {NoneArr} \cup
                 {Arr(a) : a \in SeqsUpTo(CoordRows4, MaxBlobs) \cup Arrays6}
    /\ blobs_master = <<>>
    /\ \E rt \in RegionTols : region = rt[1] /\ tol = rt[2]
    /\ op = "init"
    /\ ret = NoneArr
    /\ ret_master = <<>>

RemoveCloseBlobsWithinArray ==
    /\ op = "init"
    /\ op' = "within"
    /\ ret' = remove_close_blobs_within_array(blobs, region, tol)
    /\ UNCHANGED <<blobs, blobs_master, region, tol, ret_master, notBlobs>>

NextWithin == RemoveCloseBlobsWithinArray

SpecWithin == InitWithin /\ [][NextWithin]_vars

\* Arguments of remove_close_blobs: two arrays of the same width
MaxAdd == 2

InitClose ==
    /\ IdlePool
    /\ IdleFs
    /\ IdlePath
    /\ IdleSettings
    /\ IdleSlice
    /\ \E R \in {CoordRows4, Rows6} :
          /\ blobs \in {Arr(a) : a \in SeqsUpTo(R, MaxAdd)}
          /\ blobs_master \in SeqsUpTo(R, MaxMaster)
    /\ \E rt \in RegionTols : region = rt[1] /\ tol = rt[2]
    /\ op = "init"
    /\ ret = NoneArr
    /\ ret_master = <<>>

RemoveCloseBlobs ==
    /\ op = "init"
    /\ op' = "close"
    /\ LET r == remove_close_blobs(blobs.rows, blobs_master, region, tol)
       IN  ret' = Arr(r.pruned) /\ ret_master' = r.master
    /\ UNCHANGED <<blobs, blobs_master, region, tol, notBlobs>>

NextClose == RemoveCloseBlobs

SpecClose == InitClose /\ [][NextClose]_vars

\* Arguments of remove_duplicate_blobs: an array and slice(0, n)
InitDup ==
    /\ IdlePool
    /\ IdleFs
    /\ IdlePath
    /\ IdleSettings
    /\ IdleSlice
    /\ blobs \in {Arr(a) : a \in Arrays4 \cup Arrays6}
    /\ blobs_master = <<>>
    /\ region \in 1..3
    /\ tol = <<>>
    /\ op = "init"
    /\ ret = NoneArr
    /\ ret_master = <<>>

RemoveDuplicateBlobs ==
    /\ op = "init"
    /\ op' = "dup"
    /\ ret' = Arr(remove_duplicate_blobs(blobs.rows, region))
    /\ UNCHANGED <<blobs, blobs_master, region, tol, ret_master, notBlobs>>

NextDup == RemoveDuplicateBlobs

SpecDup == InitDup /\ [][NextDup]_vars

----------------------------------------------------------------------------
(* Properties of detector.py *)

\* Closeness as the claims state it: every region coordinate differs by at most tol
WithinTol(a, b) == \A k \in 1..region : Abs(a[k] - b[k]) <= tol[k]

SameRegion(a, b) == \A k \in 1..region : a[k] = b[k]

RegionSet(rows) == {Region(rows[i], region) : i \in 1..Len(rows)}

Permute(rows, p) == [i \in 1..Len(rows) |-> rows[p[i]]]

\* What remove_close_blobs_within_array returns for the input rows permuted by p
WithinOf(p) == remove_close_blobs_within_array(Arr(Permute(blobs.rows, p)), region, tol)

\* C1 as stated: the kept blobs, compared on the region columns, are the same
\* for every permutation of the input rows.
C1_OrderIndependent ==
    (op = "within" /\ ~blobs.isNone) =>
        \A p \in Permutations(1..Len(blobs.rows)) :
            RegionSet(WithinOf(p).rows) = RegionSet(ret.rows)

\* C1 amended: for every permutation of the input rows the first row is kept
\* and every input row is within tolerance of some kept row; the kept blobs
\* (compared on region) are the same for every permutation when all rows
\* within tolerance of each other are equal on region.
C1_OrderDependentMerge ==
    (op = "within" /\ ~blobs.isNone) =>
        \A p \in Permutations(1..Len(blobs.rows)) :
            LET inp == Permute(blobs.rows, p)
                out == WithinOf(p)
            IN  /\ out.isNone <=> inp = <<>>
                /\ inp # <<>> => SameRegion(out.rows[1], inp[1])
                /\ \A i \in 1..Len(inp) :
                      \E k \in 1..Len(out.rows) : WithinTol(out.rows[k], inp[i])
                /\ (\A i, j \in 1..Len(inp) :
                        WithinTol(inp[i], inp[j]) => SameRegion(inp[i], inp[j]))
                   => RegionSet(out.rows) = RegionSet(ret.rows)

\* C1 witness: three rows with duplicates merged, where the order cannot matter
C1_Witness ==
    /\ op = "within"
    /\ Len(blobs.rows) = 3
    /\ Len(ret.rows) = 2
    /\ \A i, j \in 1..3 :
          WithinTol(blobs.rows[i], blobs.rows[j])
              => SameRegion(blobs.rows[i], blobs.rows[j])

C4_PrunedExactlyNotClose ==
    op = "close" =>
        LET keep == {i \in 1..Len(blobs.rows) :
                        \A m \in 1..Len(blobs_master) :
                            ~WithinTol(blobs_master[m], blobs.rows[i])}
            nth(j) == CHOOSE i \in keep : Cardinality({k \in keep : k <= i}) = j
        IN  /\ Len(ret.rows) = Cardinality(keep)
            /\ \A j \in 1..Len(ret.rows) : ret.rows[j] = blobs.rows[nth(j)]

\* C4 witness: of two blobs the first is pruned at exactly the tolerance and
\* the second, close in some coordinates only, survives
C4_Witness ==
    /\ op = "close"
    /\ Len(blobs.rows) = 2
    /\ Len(blobs_master) = 1
    /\ ret.rows = <<blobs.rows[2]>>
    /\ \E k \in 1..region : tol[k] > 0 /\ Abs(blobs_master[1][k] - blobs.rows[1][k]) = tol[k]
    /\ \E k \in 1..region : Abs(blobs_master[1][k] - blobs.rows[2][k]) <= tol[k]

\* C5: remove_duplicate_blobs returns one input row for each distinct value of
\* the region columns, and applying it to its own result returns the same rows.
C5_OnePerRegion ==
    op = "dup" =>
        /\ \A i, j \in 1..Len(ret.rows) :
              i # j => ~SameRegion(ret.rows[i], ret.rows[j])
        /\ \A i \in 1..Len(blobs.rows) :
              \E j \in 1..Len(ret.rows) : SameRegion(blobs.rows[i], ret.rows[j])
        /\ \A j \in 1..Len(ret.rows) : ret.rows[j] \in Range(blobs.rows)
        /\ remove_duplicate_blobs(ret.rows, region) = ret.rows

\* C5 witness: three rows of which two agree on region and differ in radius
C5_Witness ==
    /\ op = "dup"
    /\ region = 3
    /\ Len(blobs.rows) = 3
    /\ Len(ret.rows) = 2
    /\ \E i, j \in 1..3 :
          /\ SameRegion(blobs.rows[i], blobs.rows[j])
          /\ blobs.rows[i] # blobs.rows[j]

----------------------------------------------------------------------------
(* transformer.py: the rescaling step of transpose_img *)

\* Bounds of the chunk grid and of the pool
MaxDim == 2
MaxChunks == 4
NumWorkers == 2

\* Shapes of the array of chunks returned by chunking.stack_splitter
GridShapes ==
    {s \in (1..MaxDim) \X (1..MaxDim) \X (1..MaxDim) : s[1] * s[2] * s[3] <= MaxChunks}

NumChunks(sh) == sh[1] * sh[2] * sh[3]

\* The chunk coordinates (z, y, x) of a grid
Coords(sh) == (0..(sh[1] - 1)) \X (0..(sh[2] - 1)) \X (0..(sh[3] - 1))

\* The coordinate reached by the k-th iteration (k >= 1) of the nested loops
\* over z, y and x
LoopCoord(k, sh) ==
    <<(k - 1) \div (sh[2] * sh[3]), ((k - 1) \div sh[3]) % sh[2], (k - 1) % sh[3]>>

\* chunking.stack_splitter with no overlap: the chunk of the image at each
\* coordinate; a "uniform" image has the same content in every chunk
stack_splitter(img, sh) ==
    [c \in Coords(sh) |->
        [data |-> IF img = "uniform" THEN 0
                  ELSE c[1] * sh[2] * sh[3] + c[2] * sh[3] + c[3] + 1,
         how |-> "raw"]]

\* The mutant returns the coordinate with y and x exchanged
rescale_sub_roi_swapped(rois, coord, resc, size) ==
    [coord |-> <<coord[1], coord[3], coord[2]>>,
     rescaled |-> [data |-> rois[coord].data,
                   how |-> IF resc # "None" THEN "rescale"
                           ELSE IF size # "None" THEN "resize" ELSE "none"]]

\* Downsampler.rescale_sub_roi: the coordinate and the chunk of cls.sub_rois at
\* it, rescaled by the factor if there is one, else resized to the target size
rescale_sub_roi(rois, coord, resc, size) ==
    [coord |-> coord,
     rescaled |-> [data |-> rois[coord].data,
                   how |-> IF resc # "None" THEN "rescale"
                           ELSE IF size # "None" THEN "resize" ELSE "none"]]

NoResult == [coord |-> <<0, 0, 0>>, rescaled |-> [data |-> 0, how |-> "none"]]

\* The state after Downsampler.set_data(sub_rois), pool = mp.Pool(), which
\* forks the workers with the class attribute set, and pool_results = []
InitTranspose ==
    /\ IdleBlobs
    /\ IdleFs
    /\ IdlePath
    /\ IdleSettings
    /\ IdleSlice
    /\ pc = "submit"
    /\ image \in {"varied", "uniform"}
    /\ shape \in GridShapes
    /\ rescale \in {"None", "factor"}
    /\ sub_roi_size \in {"None", "size"}
    /\ rescale # "None" \/ sub_roi_size # "None"
    /\ sub_rois = stack_splitter(image, shape)
    /\ worker_rois = sub_rois
    /\ pool_results = <<>>
    /\ taskq = <<>>
    /\ workers = [w \in 1..NumWorkers |-> 0]
    /\ n_got = 0
    /\ finished = <<>>
    /\ merged = <<>>

\* One iteration of the nested submission loops: pool.apply_async
Submit ==
    /\ pc = "submit"
    /\ LET k == Len(pool_results) + 1
       IN  /\ pool_results' = Append(pool_results,
                  [args |-> LoopCoord(k, shape), ready |-> FALSE, value |-> NoResult])
           /\ taskq' = Append(taskq, k)
           /\ pc' = IF k = NumChunks(shape) THEN "collect" ELSE "submit"
    /\ UNCHANGED <<image, shape, rescale, sub_roi_size, sub_rois, worker_rois,
                   workers, n_got, finished, merged, notPool>>

\* An idle worker process takes the oldest task of the queue
WorkerTake(w) ==
    /\ workers[w] = 0
    /\ taskq # <<>>
    /\ workers' = [workers EXCEPT ![w] = Head(taskq)]
    /\ taskq' = Tail(taskq)
    /\ UNCHANGED <<pc, image, shape, rescale, sub_roi_size, sub_rois, worker_rois,
                   pool_results, n_got, finished, merged, notPool>>

\* A worker process finishes its task: the result becomes ready
WorkerFinish(w) ==
    /\ workers[w] # 0
    /\ LET k == workers[w]
       IN  pool_results' = [pool_results EXCEPT
               ![k].ready = TRUE,
               ![k].value = rescale_sub_roi(worker_rois, pool_results[k].args,
                                            rescale, sub_roi_size)]
    /\ finished' = Append(finished, workers[w])
    /\ workers' = [workers EXCEPT ![w] = 0]
    /\ UNCHANGED <<pc, image, shape, rescale, sub_roi_size, sub_rois, worker_rois,
                   taskq, n_got, merged, notPool>>

\* One iteration of the collection loop: result.get() blocks until the result
\* is ready, then sub_rois[coord] = sub_roi
Get ==
    /\ pc = "collect"
    /\ LET k == n_got + 1
       IN  /\ pool_results[k].ready
           /\ sub_rois' = [sub_rois EXCEPT
                  ![pool_results[k].value.coord] = pool_results[k].value.rescaled]
           /\ n_got' = k
           /\ pc' = IF k = Len(pool_results) THEN "close" ELSE "collect"
    /\ UNCHANGED <<image, shape, rescale, sub_roi_size, worker_rois, pool_results,
                   taskq, workers, finished, merged, notPool>>

\* pool.close() and pool.join(): returns when the workers have exited
CloseJoin ==
    /\ pc = "close"
    /\ taskq = <<>>
    /\ \A w \in 1..NumWorkers : workers[w] = 0
    /\ pc' = "merge"
    /\ UNCHANGED <<image, shape, rescale, sub_roi_size, sub_rois, worker_rois,
                   pool_results, taskq, workers, n_got, finished, merged, notPool>>

\* chunking.merge_split_stack2(sub_rois, ...) into the output array
Merge ==
    /\ pc = "merge"
    /\ merged' = sub_rois
    /\ pc' = "done"
    /\ UNCHANGED <<image, shape, rescale, sub_roi_size, sub_rois, worker_rois,
                   pool_results, taskq, workers, n_got, finished, notPool>>

NextTranspose ==
    \/ Submit
    \/ \E w \in 1..NumWorkers : WorkerTake(w)
    \/ \E w \in 1..NumWorkers : WorkerFinish(w)
    \/ Get
    \/ CloseJoin
    \/ Merge

SpecTranspose == InitTranspose /\ [][NextTranspose]_vars

\* The rescaled version of the chunk of the image at coordinate c
RescaledChunk(c) ==
    [data |-> stack_splitter(image, shape)[c].data,
     how |-> IF rescale # "None" THEN "rescale" ELSE "resize"]

\* C2: one task is submitted per chunk coordinate; once all results are
\* collected every cell holds the rescaled chunk that was originally at that
\* coordinate, whatever the order of completion; the merge starts only after
\* every result has been retrieved.
C2_OneTaskPerChunk ==
    /\ pc \notin {"idle", "submit"} =>
          /\ Len(pool_results) = NumChunks(shape)
          /\ \A c \in Coords(shape) :
                Cardinality({k \in 1..Len(pool_results) : pool_results[k].args = c}) = 1
    /\ pc \in {"close", "merge", "done"} =>
          /\ n_got = NumChunks(shape)
          /\ \A c \in Coords(shape) : sub_rois[c] = RescaledChunk(c)
    /\ pc = "done" =>
          /\ \A k \in 1..Len(pool_results) : pool_results[k].ready
          /\ \A c \in Coords(shape) : merged[c] = RescaledChunk(c)

\* C2 witness: a grid of four distinct chunks was merged after a later task
\* had finished before an earlier one
C2_Witness ==
    /\ pc = "done"
    /\ NumChunks(shape) = 4
    /\ image = "varied"
    /\ \E i, j \in 1..Len(finished) : i < j /\ finished[i] > finished[j]
    /\ \A c \in Coords(shape) : merged[c] = RescaledChunk(c)

----------------------------------------------------------------------------
(* lib_clrbrain.py: insert_before_ext and backup_file *)
(* A path is a sequence of tokens, "." being a token of its own, so that   *)
(* splitting at a dot and formatting an index are done on the text.        *)

\* Bound on the number of files written
MaxWrites == 3

\* _FILE_TYPE_GROUPS.get(ext): the associated extension, "" if there is none
FILE_TYPE_GROUPS(ext) ==
    IF ext = "obj" THEN "mtl" ELSE IF ext = "mhd" THEN "raw" ELSE ""

\* Position of the last "." of a name, 0 if it has none
LastDot(name) ==
    LET dots == {k \in 1..Len(name) : name[k] = "."}
    IN  IF dots = {} THEN 0 ELSE CHOOSE k \in dots : \A j \in dots : j <= k

\* insert_before_ext with the default sep: a dot is appended to a name that
\* has none, then insert goes before the last dot
insert_before_ext(name, insert) ==
    LET n == IF LastDot(name) = 0 THEN name \o <<".">> ELSE name
        d == LastDot(n)
    IN  SubSeq(n, 1, d - 1) \o insert \o <<".">> \o SubSeq(n, d + 1, Len(n))

\* os.path.splitext of a name without directories: the extension starts at
\* the last dot, unless that dot leads the name
splitext(path) ==
    LET d == LastDot(path)
    IN  IF d <= 1 THEN <<path, <<>>>>
        ELSE <<SubSeq(path, 1, d - 1), SubSeq(path, d, Len(path))>>

\* "({})".format(i)
IndexToken(i) == "(" \o ToString(i) \o ")"

\* os.path.exists
os_path_exists(files, path) == path \in DOMAIN files

\* The mutant moves the file whether or not the backup path exists
backup_path_free_always(files, backup_path) == TRUE

\* "if not os.path.exists(backup_path)"
backup_path_free(files, backup_path) == ~os_path_exists(files, backup_path)

\* The mutant numbers the first backup 0
first_index_zero(i) == i

\* "if i == 0: i = 1": start incrementing from 1
first_index(i) == IF i = 0 THEN 1 ELSE i

\* shutil.move(src, dst) to a path that does not exist
shutil_move(files, src, dst) ==
    [q \in (DOMAIN files \ {src}) \cup {dst} |-> IF q = dst THEN files[src] ELSE files[q]]

\* No index given: i = None
NoIndex == 0 - 1

RECURSIVE backup_file(_, _, _, _)
RECURSIVE backup_loop(_, _, _, _)

\* The "while True" loop of backup_file from index i on.  The result holds
\* the new file system, the moves made (source, destination, index; index 0
\* for the modifier alone) and whether shutil.move raised for a missing file.
backup_loop(files, path, modifier, i) ==
    LET plain == (i = 0 /\ modifier # <<>>)
        idx == IF plain THEN 0 ELSE first_index(i)
        backup_path == IF plain THEN insert_before_ext(path, modifier)
                       ELSE insert_before_ext(path, modifier \o <<IndexToken(idx)>>)
    IN  IF backup_path_free(files, backup_path)
        THEN IF ~os_path_exists(files, path)
             THEN [fs |-> files, moves |-> <<>>, raised |-> TRUE]
             ELSE LET moved == shutil_move(files, path, backup_path)
                      move == [src |-> path, dst |-> backup_path, i |-> idx]
                      path_split == splitext(path)
                      ext_associated ==
                          IF path_split[2] = <<>> THEN ""
                          ELSE IF Len(path_split[2]) = 2
                               THEN FILE_TYPE_GROUPS(path_split[2][2]) ELSE ""
                  IN  IF ext_associated # ""
                      THEN LET r == backup_file(moved,
                                        path_split[1] \o <<".", ext_associated>>,
                                        modifier, idx)
                           IN  [fs |-> r.fs, moves |-> <<move>> \o r.moves,
                                raised |-> r.raised]
                      ELSE [fs |-> moved, moves |-> <<move>>, raised |-> FALSE]
        ELSE backup_loop(files, path, modifier, idx + 1)

\* backup_file(path, modifier, i): "if not i" holds for None and for 0
backup_file(files, path, modifier, i) ==
    IF i = NoIndex \/ i = 0
    THEN IF ~os_path_exists(files, path)
         THEN [fs |-> files, moves |-> <<>>, raised |-> FALSE]
         ELSE backup_loop(files, path, modifier, 0)
    ELSE backup_loop(files, path, modifier, i)

\* Paths handed to backup_file and modifiers
PathArgs == {<<"a", ".", "csv">>, <<"a", ".", "obj">>, <<"a", ".", "mtl">>, <<"a">>}
Modifiers == {<<>>, <<"_bak">>}

InitBackup ==
    /\ IdleBlobs
    /\ IdlePool
    /\ IdlePath
    /\ IdleSettings
    /\ IdleSlice
    /\ fs = <<>>
    /\ n_writes = 0
    /\ pre = <<>>
    /\ last = [op |-> "none"]
    /\ made = [p \in PathArgs |-> <<>>]
    /\ assoc_moved = {}

\* A file is written to path, as by df.to_csv(path)
Write(path) ==
    /\ n_writes < MaxWrites
    /\ n_writes' = n_writes + 1
    /\ fs' = [q \in DOMAIN fs \cup {path} |-> IF q = path THEN n_writes + 1 ELSE fs[q]]
    /\ last' = [op |-> "write"]
    /\ UNCHANGED <<pre, made, assoc_moved, notFs>>

\* backup_file(path, modifier)
BackupFile(path, modifier) ==
    LET r == backup_file(fs, path, modifier, NoIndex)
    IN  /\ fs' = r.fs
        /\ pre' = fs
        /\ last' = [op |-> "backup", path |-> path, modifier |-> modifier,
                    moves |-> r.moves, raised |-> r.raised]
        /\ made' = IF modifier = <<>> /\ r.moves # <<>>
                   THEN [made EXCEPT ![path] = Append(@, fs[path])] ELSE made
        /\ assoc_moved' = assoc_moved \cup {r.moves[k].src : k \in 2..Len(r.moves)}
        /\ UNCHANGED <<n_writes, notFs>>

NextBackup ==
    \/ \E path \in PathArgs : Write(path)
    \/ \E path \in PathArgs, modifier \in Modifiers : BackupFile(path, modifier)

SpecBackup == InitBackup /\ [][NextBackup]_vars

----------------------------------------------------------------------------
(* Properties of backup_file *)

\* path-before-ext, then ins, then .ext, for a path <<stem, ".", ext>> or <<stem>>
BackupName(path, ins) ==
    IF Len(path) = 3 THEN <<path[1]>> \o ins \o <<".", path[3]>>
    ELSE path \o ins \o <<".">>

\* path-before-ext(i).ext
IndexedName(path, i) == BackupName(path, <<"(" \o ToString(i) \o ")">>)

\* The file associated with path: .mtl for .obj, .raw for .mhd, else <<>>
Associated(path) ==
    IF Len(path) = 3 /\ path[3] = "obj" THEN <<path[1], ".", "mtl">>
    ELSE IF Len(path) = 3 /\ path[3] = "mhd" THEN <<path[1], ".", "raw">>
    ELSE <<>>

\* C6: backup_file never overwrites or loses data: the content of an existing
\* path is afterwards at a backup path that did not exist before, every other
\* file is unchanged, apart from an associated file that is moved likewise;
\* when path does not exist the file system is unchanged.
C6_NoDataLost ==
    last.op = "backup" =>
        IF last.path \notin DOMAIN pre THEN fs = pre
        ELSE /\ \E dst \in DOMAIN fs \ DOMAIN pre : fs[dst] = pre[last.path]
             /\ \A q \in DOMAIN pre \ {last.path} :
                   \/ q \in DOMAIN fs /\ fs[q] = pre[q]
                   \/ /\ q = Associated(last.path)
                      /\ \E dst \in DOMAIN fs \ DOMAIN pre : fs[dst] = pre[q]

\* C6 witness: a.obj and a.mtl were both moved while a backup with index 1
\* already existed
C6_Witness ==
    /\ last.op = "backup"
    /\ last.path = <<"a", ".", "obj">>
    /\ Len(last.moves) = 2
    /\ IndexedName(last.path, 1) \in DOMAIN pre
    /\ Cardinality(DOMAIN pre) = 3

\* C7: with an empty modifier backup_file moves path to path-before-ext(i).ext
\* for the smallest i >= 1 whose path does not exist; over cycles of writing
\* path and backing it up, the k-th backup is at index k and earlier backups
\* keep their index and content.
C7_SmallestFreeIndex ==
    /\ (last.op = "backup" /\ last.modifier = <<>> /\ last.path \in DOMAIN pre) =>
          LET free == {i \in 1..(Cardinality(DOMAIN pre) + 1) :
                          IndexedName(last.path, i) \notin DOMAIN pre}
              i == CHOOSE i \in free : \A j \in free : i <= j
          IN  /\ last.moves[1].src = last.path
              /\ last.moves[1].dst = IndexedName(last.path, i)
              /\ last.path \notin DOMAIN fs
              /\ fs[IndexedName(last.path, i)] = pre[last.path]
    /\ last.op \notin {"idle", "none"} =>
          \A path \in PathArgs \ assoc_moved :
              \A k \in 1..Len(made[path]) :
                  /\ IndexedName(path, k) \in DOMAIN fs
                  /\ fs[IndexedName(path, k)] = made[path][k]

\* C7 witness: the third of three cycles on one path has just been backed up
C7_Witness ==
    /\ last.op = "backup"
    /\ last.modifier = <<>>
    /\ Len(last.moves) = 1
    /\ Len(made[last.path]) = 3
    /\ last.moves[1].dst = IndexedName(last.path, 3)

\* C8: when a file with an associated file is backed up, the associated file
\* is backed up too, with the same index number as the main file.
C8_SameIndex ==
    (/\ last.op = "backup"
     /\ last.path \in DOMAIN pre
     /\ Associated(last.path) \in DOMAIN pre) =>
        /\ ~last.raised
        /\ Len(last.moves) = 2
        /\ last.moves[2].src = Associated(last.path)
        /\ last.moves[2].i = last.moves[1].i

----------------------------------------------------------------------------
(* transformer.py: get_transposed_image_path *)

\* Bound on the number of tokens of img_path
MaxPathLen == 3

PathTokens == {"img", ".", "czi"}

\* scale: None, the ints 0 and 2, the float 0.5 (floats are held in tenths)
ScaleVals ==
    {[none |-> TRUE],
     [none |-> FALSE, kind |-> "int", n |-> 0],
     [none |-> FALSE, kind |-> "int", n |-> 2],
     [none |-> FALSE, kind |-> "float", n |-> 5]}

\* target_size: None or (x, y, z)
TargetSizes ==
    {[none |-> TRUE],
     [none |-> FALSE, size |-> <<10, 20, 30>>],
     [none |-> FALSE, size |-> <<30, 20, 10>>]}

\* "{}".format(v) of an int, or of a float with one decimal
str_number(v) ==
    IF v.kind = "int" THEN ToString(v.n)
    ELSE ToString(v.n \div 10) \o "." \o ToString(v.n % 10)

\* make_modifier_scale
make_modifier_scale(sc) == "scale" \o str_number(sc)

\* make_modifier_resized
make_modifier_resized(ts) ==
    "resized(" \o ToString(ts.size[1]) \o "," \o ToString(ts.size[2]) \o ","
        \o ToString(ts.size[3]) \o ")"

\* The mutant gives target_size priority over scale
get_transposed_image_path_size_first(path, sc, ts) ==
    IF ~sc.none \/ ~ts.none
    THEN LET modifier == IF ~ts.none THEN make_modifier_resized(ts)
                         ELSE make_modifier_scale(sc)
         IN  insert_before_ext(path, <<"_" \o modifier>>)
    ELSE path

\* get_transposed_image_path
get_transposed_image_path(path, sc, ts) ==
    IF ~sc.none \/ ~ts.none
    THEN LET modifier == IF ~sc.none THEN make_modifier_scale(sc)
                         ELSE make_modifier_resized(ts)
         IN  insert_before_ext(path, <<"_" \o modifier>>)
    ELSE path

InitPath ==
    /\ IdleBlobs
    /\ IdlePool
    /\ IdleFs
    /\ IdleSettings
    /\ IdleSlice
    /\ img_path \in SeqsUpTo(PathTokens, MaxPathLen)
    /\ scale \in ScaleVals
    /\ target_size \in TargetSizes
    /\ img_path_modified = <<>>
    /\ path_pc = "call"

GetTransposedImagePath ==
    /\ path_pc = "call"
    /\ path_pc' = "return"
    /\ img_path_modified' = get_transposed_image_path(img_path, scale, target_size)
    /\ UNCHANGED <<img_path, scale, target_size, notPath>>

NextPath == GetTransposedImagePath

SpecPath == InitPath /\ [][NextPath]_vars

\* The text of a scale as it appears in file names
ScaleText == IF scale.kind = "int" THEN ToString(scale.n)
             ELSE ToString(scale.n \div 10) \o "." \o ToString(scale.n % 10)

\* C9: get_transposed_image_path returns img_path unchanged when scale and
\* target_size are both None; otherwise it inserts, just before the extension
\* (the last dot, appended if there is none), "_scale<scale>" when scale is not
\* None and "_resized(<a>,<b>,<c>)" from target_size only when scale is None.
C9_ScaleTakesPriority ==
    path_pc = "return" =>
        IF scale.none /\ target_size.none THEN img_path_modified = img_path
        ELSE LET modifier ==
                     IF ~scale.none THEN "_scale" \o ScaleText
                     ELSE "_resized(" \o ToString(target_size.size[1]) \o ","
                              \o ToString(target_size.size[2]) \o ","
                              \o ToString(target_size.size[3]) \o ")"
                 name == IF \E k \in 1..Len(img_path) : img_path[k] = "."
                         THEN img_path ELSE img_path \o <<".">>
             IN  \E k \in 1..Len(name) :
                     /\ name[k] = "."
                     /\ \A j \in (k + 1)..Len(name) : name[j] # "."
                     /\ img_path_modified =
                            SubSeq(name, 1, k - 1) \o <<modifier>> \o SubSeq(name, k, Len(name))

\* C9 witness: scale 0 and a target size are both given for img.czi
C9_Witness ==
    /\ path_pc = "return"
    /\ img_path = <<"img", ".", "czi">>
    /\ ~scale.none /\ scale.n = 0
    /\ ~target_size.none
    /\ img_path_modified = <<"img", "_scale0", ".", "czi">>

----------------------------------------------------------------------------
(* profiles.py: ProcessSettings and update_process_settings *)

\* Bound on the number of tokens of settings_type
MaxTypeLen == 5

\* ProcessSettings.__init__: the default settings, values as Python text
ProcessSettings ==
       "settings_name" :> "default"
    @@ "vis_3d" :> "points"
    @@ "points_3d_thresh" :> "0.85"
    @@ "clip_vmax" :> "99.5"
    @@ "clip_min" :> "0.2"
    @@ "clip_max" :> "1.0"
    @@ "tot_var_denoise" :> "False"
    @@ "unsharp_strength" :> "0.3"
    @@ "erosion_threshold" :> "0.2"
    @@ "min_sigma_factor" :> "3"
    @@ "max_sigma_factor" :> "30"
    @@ "num_sigma" :> "10"
    @@ "detection_threshold" :> "0.1"
    @@ "overlap" :> "0.5"
    @@ "thresholding" :> "None"
    @@ "thresholding_size" :> "-1"
    @@ "denoise_size" :> "25"
    @@ "segment_size" :> "500"
    @@ "prune_tol_factor" :> "(1, 1, 1)"
    @@ "verify_tol_factor" :> "(1, 1, 1)"
    @@ "channel_colors" :> "(config.Cmaps.CMAP_GRBK_NAME, config.Cmaps.CMAP_RDBK_NAME)"
    @@ "isotropic" :> "None"
    @@ "isotropic_vis" :> "None"
    @@ "resize_blobs" :> "None"
    @@ "sub_stack_max_pixels" :> "(1000, 1000, 1000)"
    @@ "scale_bar_color" :> "w"
    @@ "colorbar" :> "False"
    @@ "load_rot90" :> "0"
    @@ "exclude_border" :> "None"
    @@ "norm" :> "None"

\* The add_modifier calls of update_process_settings in code order:
\* <<mod_name, mods>>
ProcessModifiers == <<
    <<"lightsheet",
      ("points_3d_thresh" :> "0.7" @@
       "clip_vmax" :> "98.5" @@
       "clip_min" :> "0" @@
       "clip_max" :> "0.5" @@
       "unsharp_strength" :> "0.3" @@
       "erosion_threshold" :> "0.3" @@
       "min_sigma_factor" :> "2.6" @@
       "max_sigma_factor" :> "2.8" @@
       "num_sigma" :> "10" @@
       "overlap" :> "0.55" @@
       "segment_size" :> "150" @@
       "prune_tol_factor" :> "(1, 0.9, 0.9)" @@
       "verify_tol_factor" :> "(3, 1.2, 1.2)" @@
       "isotropic" :> "(0.96, 1, 1)" @@
       "isotropic_vis" :> "(1.3, 1, 1)" @@
       "sub_stack_max_pixels" :> "(1200, 800, 800)" @@
       "exclude_border" :> "(1, 0, 0)")>>,
    <<"2p20x",
      ("vis_3d" :> "surface" @@
       "clip_vmax" :> "97" @@
       "clip_min" :> "0" @@
       "clip_max" :> "0.7" @@
       "tot_var_denoise" :> "True" @@
       "unsharp_strength" :> "2.5" @@
       "min_sigma_factor" :> "2.6" @@
       "max_sigma_factor" :> "4" @@
       "num_sigma" :> "20" @@
       "overlap" :> "0.1" @@
       "thresholding" :> "None" @@
       "thresholding_size" :> "64" @@
       "denoise_size" :> "25" @@
       "segment_size" :> "100" @@
       "prune_tol_factor" :> "(1.5, 1.3, 1.3)")>>,
    <<"zebrafish",
      ("min_sigma_factor" :> "2.5" @@
       "max_sigma_factor" :> "3")>>,
    <<"contrast",
      ("channel_colors" :> "('inferno', 'bone')")>>,
    <<"bone",
      ("channel_colors" :> "('bone', 'bone')")>>,
    <<"diverging",
      ("channel_colors" :> "('RdBu', 'BrBG')" @@
       "scale_bar_color" :> "k" @@
       "colorbar" :> "True")>>,
    <<"cytoplasm",
      ("clip_min" :> "0.3" @@
       "clip_max" :> "0.8" @@
       "points_3d_thresh" :> "0.7" @@
       "min_sigma_factor" :> "4" @@
       "max_sigma_factor" :> "10" @@
       "num_sigma" :> "10" @@
       "overlap" :> "0.2")>>,
    <<"isotropic",
      ("points_3d_thresh" :> "0.3" @@
       "isotropic_vis" :> "(1, 1, 1)")>>,
    <<"binary",
      ("denoise_size" :> "None" @@
       "detection_threshold" :> "0.001")>>,
    <<"4xnuc",
      ("min_sigma_factor" :> "3" @@
       "max_sigma_factor" :> "4")>>,
    <<"20x",
      ("segment_size" :> "50")>>,
    <<"exportdl",
      ("isotropic" :> "(0.93, 1, 1)")>>,
    <<"importdl",
      ("isotropic" :> "None" @@
       "resize_blobs" :> "(0.2, 1, 1)" @@
       "load_rot90" :> "2")>>,
    <<"register",
      ("unsharp_strength" :> "1.5")>>,
    <<"atlas",
      ("channel_colors" :> "('gray',)" @@
       "clip_vmax" :> "97")>>,
    <<"randomcolors",
      ("channel_colors" :> "[]")>>,
    <<"norm",
      ("norm" :> "(0.0, 1.0)")>>
>>

\* Tokens of settings_type: profile names, a name of no profile, the separator
TypeTokens == {"lightsheet", "cytoplasm", "contrast", "5x", "_"}

\* str.split("_") of a sequence of tokens: the runs between separators
RECURSIVE split(_)
split(s) ==
    LET seps == {k \in 1..Len(s) : s[k] = "_"}
    IN  IF seps = {} THEN <<s>>
        ELSE LET k == CHOOSE k \in seps : \A j \in seps : k <= j
             IN  <<SubSeq(s, 1, k - 1)>> \o split(SubSeq(s, k + 1, Len(s)))

\* The mutant applies the modifier whatever name is checked
add_modifier_no_check(st, mod_name, mods, name_check) ==
    LET named == [st EXCEPT !["settings_name"] = @ \o "_" \o mod_name]
    IN  [key \in DOMAIN named \cup DOMAIN mods |->
            IF key \in DOMAIN mods THEN mods[key] ELSE named[key]]

\* SettingsDict.add_modifier with the default sep; name_check is the text of
\* a profile name (it is never None in update_process_settings)
add_modifier(st, mod_name, mods, name_check) ==
    IF name_check # <<mod_name>> THEN st
    ELSE LET named == [st EXCEPT !["settings_name"] = @ \o "_" \o mod_name]
         IN  [key \in DOMAIN named \cup DOMAIN mods |->
                 IF key \in DOMAIN mods THEN mods[key] ELSE named[key]]

\* The add_modifier calls from the i-th on, for one profile name. Each call
\* acts on the dictionary the call before it left: taking the keys of that
\* dictionary evaluates it before the next call is made.
RECURSIVE apply_modifiers(_, _, _)
apply_modifiers(st, profile, i) ==
    IF i > Len(ProcessModifiers) THEN st
    ELSE LET next == add_modifier(st, ProcessModifiers[i][1],
                                  ProcessModifiers[i][2], profile)
         IN  IF DOMAIN next = DOMAIN next
             THEN apply_modifiers(next, profile, i + 1)
             ELSE next

\* The loop over profiles from the i-th on
RECURSIVE apply_profiles(_, _, _)
apply_profiles(st, profiles, i) ==
    IF i > Len(profiles) THEN st
    ELSE apply_profiles(apply_modifiers(st, profiles[i], 1), profiles, i + 1)

\* update_process_settings
update_process_settings(st, type) == apply_profiles(st, split(type), 1)

InitSettings ==
    /\ IdleBlobs
    /\ IdlePool
    /\ IdleFs
    /\ IdlePath
    /\ IdleSlice
    /\ settings = ProcessSettings
    /\ settings_type \in SeqsUpTo(TypeTokens, MaxTypeLen)
    /\ settings_pc = "call"

UpdateProcessSettings ==
    /\ settings_pc = "call"
    /\ settings_pc' = "return"
    /\ settings' = update_process_settings(settings, settings_type)
    /\ UNCHANGED <<settings_type, notSettings>>

NextSettings == UpdateProcessSettings

SpecSettings == InitSettings /\ [][NextSettings]_vars

\* The names listed in settings_type
Listed == split(settings_type)

\* The index in ProcessModifiers of the profile a listed name names, 0 if none
ProfileOf(name) ==
    LET m == {i \in 1..Len(ProcessModifiers) : name = <<ProcessModifiers[i][1]>>}
    IN  IF m = {} THEN 0 ELSE CHOOSE i \in m : TRUE

\* The positions in Listed of the recognised profiles that define key
Defining(key) ==
    {i \in 1..Len(Listed) :
        /\ ProfileOf(Listed[i]) # 0
        /\ key \in DOMAIN ProcessModifiers[ProfileOf(Listed[i])][2]}

\* The value of key by the last-listed recognised profile that defines it,
\* the default if there is none
LastListed(key) ==
    IF Defining(key) = {} THEN ProcessSettings[key]
    ELSE LET i == CHOOSE i \in Defining(key) : \A j \in Defining(key) : j <= i
         IN  ProcessModifiers[ProfileOf(Listed[i])][2][key]

\* "default" followed by _<name> for each recognised listed name from the i-th on
RECURSIVE NameFrom(_)
NameFrom(i) ==
    IF i > Len(Listed) THEN ""
    ELSE IF ProfileOf(Listed[i]) = 0 THEN NameFrom(i + 1)
    ELSE "_" \o Listed[i][1] \o NameFrom(i + 1)

\* C10 as stated: after the call every setting key holds the value of the
\* last-listed recognised profile that defines it, its default if none does.
C10_EveryKeyLastListed ==
    settings_pc = "return" =>
        /\ DOMAIN settings = DOMAIN ProcessSettings
        /\ \A key \in DOMAIN ProcessSettings : settings[key] = LastListed(key)

\* C10 amended: after the call every setting key other than settings_name
\* holds the value of the last-listed recognised profile that defines it, its
\* default if none does; settings_name holds "default" followed by _<name> for
\* every recognised profile in listing order; names of no profile change nothing.
C10_LastListedWins ==
    settings_pc = "return" =>
        /\ DOMAIN settings = DOMAIN ProcessSettings
        /\ \A key \in DOMAIN ProcessSettings \ {"settings_name"} :
              settings[key] = LastListed(key)
        /\ settings["settings_name"] = "default" \o NameFrom(1)

\* C10 witness: lightsheet, a name of no profile, then cytoplasm, which
\* overrides clip_min of lightsheet and leaves its clip_vmax
C10_Witness ==
    /\ settings_pc = "return"
    /\ settings_type = <<"lightsheet", "_", "5x", "_", "cytoplasm">>
    /\ settings["clip_min"] = "0.3"
    /\ settings["clip_vmax"] = "98.5"
    /\ settings["vis_3d"] = "points"
    /\ settings["settings_name"] = "default_lightsheet_cytoplasm"

----------------------------------------------------------------------------
(* lib_clrbrain.py: scale_slice *)
(* A value that may be None is a record with the field none; the scale is   *)
(* held in halves, so that 1 is 0.5 and 3 is 1.5.                           *)

\* Bound on the start and stop of a slice
MaxStop == 4

\* None, or an int of S
IntOrNone(S) == {[none |-> TRUE]} \cup {[none |-> FALSE, n |-> k] : k \in S}

\* slice objects: start and stop up to MaxStop, step None, 1, 2 or 3
Slices ==
    [start : IntOrNone(0..MaxStop), stop : IntOrNone(0..MaxStop),
     step : IntOrNone(1..3)]

\* scale: 0.5, 1, 1.5 and 2, in halves
SliceScales == 1..4

\* size of the full range
SliceSizes == {MaxStop, MaxStop + 1}

\* int(s * scale): the product truncated towards zero
int_times(s, sc) ==
    IF s * sc >= 0 THEN (s * sc) \div 2 ELSE 0 - ((0 - s * sc) \div 2)

\* "s if s is None else int(s * scale)"
scale_value(s, sc) ==
    IF s.none THEN s ELSE [none |-> FALSE, n |-> int_times(s.n, sc)]

\* np.linspace(start, end, num, dtype=int): num evenly spaced values from
\* start to end, floored; ValueError for a negative num
np_linspace(start, end, num) ==
    IF num < 0 THEN [kind |-> "ValueError"]
    ELSE [kind |-> "array",
          vals |-> [i \in 1..num |->
                       IF num = 1 THEN start
                       ELSE start + ((i - 1) * (end - start)) \div (num - 1)]]

\* scale_slice: "sl.stop - sl.start" raises TypeError when either is None
scale_slice(s, sc, size) ==
    LET scaled == [start |-> scale_value(s.start, sc),
                   stop |-> scale_value(s.stop, sc),
                   step |-> scale_value(s.step, sc)]
    IN  IF sc >= 2 THEN [kind |-> "slice", sl |-> scaled]
        ELSE LET start == IF scaled.start.none THEN 0 ELSE scaled.start.n
                 end == IF scaled.stop.none THEN size ELSE scaled.stop.n
             IN  IF s.stop.none \/ s.start.none THEN [kind |-> "TypeError"]
                 ELSE np_linspace(start, end, s.stop.n - s.start.n)

InitSlice ==
    /\ IdleBlobs
    /\ IdlePool
    /\ IdleFs
    /\ IdlePath
    /\ IdleSettings
    /\ sl \in Slices
    /\ slice_scale \in SliceScales
    /\ slice_size \in SliceSizes
    /\ slice_ret = <<>>
    /\ slice_pc = "call"

ScaleSlice ==
    /\ slice_pc = "call"
    /\ slice_pc' = "return"
    /\ slice_ret' = scale_slice(sl, slice_scale, slice_size)
    /\ UNCHANGED <<sl, slice_scale, slice_size, notSlice>>

NextSlice == ScaleSlice

SpecSlice == InitSlice /\ [][NextSlice]_vars

----------------------------------------------------------------------------
(* Properties of scale_slice *)

\* The number of indices a slice selects from a sequence of n elements: the
\* length of range(*s.indices(n)), for a step that is None or not zero
SliceLen(s, n) ==
    LET step == IF s.step.none THEN 1 ELSE s.step.n
        lower == IF step > 0 THEN 0 ELSE 0 - 1
        upper == IF step > 0 THEN n ELSE n - 1
        Clip(v) == IF v < 0 THEN (IF v + n < lower THEN lower ELSE v + n)
                   ELSE (IF v > upper THEN upper ELSE v)
        start == IF s.start.none THEN (IF step > 0 THEN lower ELSE upper)
                 ELSE Clip(s.start.n)
        stop == IF s.stop.none THEN (IF step > 0 THEN upper ELSE lower)
                ELSE Clip(s.stop.n)
    IN  IF step > 0
        THEN (IF start < stop THEN (stop - start - 1) \div step + 1 ELSE 0)
        ELSE (IF stop < start THEN (start - stop - 1) \div (0 - step) + 1 ELSE 0)

\* C11: scale_slice returns a selection with as many elements as the original
\* slice selects: for a scale >= 1 the returned slice selects, from the range
\* scaled likewise, as many indices as sl selects from the range of the given
\* size, and for a scale < 1 the returned index array has that many elements,
\* whatever the step and with None start, stop or step.
C11_SameNumberOfElements ==
    slice_pc = "return" =>
        IF slice_scale >= 2
        THEN /\ slice_ret.kind = "slice"
             /\ SliceLen(slice_ret.sl, int_times(slice_size, slice_scale))
                    = SliceLen(sl, slice_size)
        ELSE /\ slice_ret.kind = "array"
             /\ Len(slice_ret.vals) = SliceLen(sl, slice_size)

====
